---- MODULE Spec2Model ----
(***************************************************************************)
(* AIS stream ingestion (forelandmarine/aistracker).                       *)
(*                                                                         *)
(* The model follows src/index.js: one feed socket at a time is created by *)
(* connectAIS, every inbound frame runs the async 'message' handler, which *)
(* suspends at each pool.query, and the store holds two tables, vessels    *)
(* (PRIMARY KEY mmsi) and ais_positions (append-only history).  The two    *)
(* programs of src/unnamed/part_001 share the feed client and the handler: *)
(* the first adds the bootstrap retry and cleanupOldData, the second       *)
(* creates its tables while the module loads.  All three serve the /api    *)
(* routes, whose callbacks query the store through the same pool.          *)
(*                                                                         *)
(* JavaScript values: a number field is an integer or Null, a text field   *)
(* is a string or NullS.  An absent object (MetaData, a payload, Dimension)*)
(* is the record Absent.  The ship type, which the feed may send as a      *)
(* number or as text, is Num(n), Text(s) or JNull.                         *)
(***************************************************************************)
EXTENDS Integers, Sequences, FiniteSets, TLC

VARIABLES
    program,    \* the program that is loaded: "yacht" is src/index.js,
                \* "retention" the first program of src/unnamed/part_001 and
                \* "plain" its second
    env,        \* which of DATABASE_URL and AISSTREAM_API_KEY are set
    phase,      \* "boot" before the app.listen callback ran, "running" after
                \* it started the feed, "exited" once the process is gone;
                \* "connect" and "create" while initDatabase awaits SELECT
                \* NOW() and CREATE TABLE, "delay" between two attempts of
                \* connectWithRetry, "load" and "listen" while the second
                \* program of part_001 loads its module and waits to listen
    sockets,    \* every WebSocket connectAIS created, in creation order;
                \* the global `ws` is the last one
    timers,     \* pending setTimeout(connectAIS, ...) timers
    inflight,   \* suspended message handlers whose pending pool.query holds
                \* a pooled connection
    queued,     \* the pending pool.query calls, of handlers and of the
                \* others, that wait for a connection, in the order issued
    received,   \* number of 'message' events delivered so far
    last,       \* the handler invocation that returned most recently
    escaped,    \* TRUE once an exception left an event handler uncaught
    vessels,    \* rows of table vessels
    positions,  \* rows of table ais_positions, in insertion order
    nextId,     \* next value of the SERIAL column ais_positions.id
    now,        \* the store's clock, read by NOW()
    tables,     \* TRUE once the store holds the two tables
    attempt,    \* connectWithRetry's loop variable i
    interval,   \* TRUE while the setInterval(cleanupOldData, ...) is armed
    due,        \* the time at which that interval fires next
    runs,       \* cleanupOldData invocations suspended at a pool.query
    started,    \* who called cleanupOldData so far, in the order of the calls
    ended,      \* the cleanupOldData invocation that returned most recently
    requests    \* callbacks of the /api routes suspended at their pool.query

(* what only the deployment with retention and bootstrap retry changes *)
retention == <<tables, attempt, interval, due, runs, started, ended>>

vars == <<program, env, phase, sockets, timers, inflight, queued, received, last, escaped,
          vessels, positions, nextId, now, retention, requests>>

----------------------------------------------------------------------------
(* Bounds of the model. *)

MaxMsgs == 2        \* 'message' events delivered in one behaviour
MaxConnects == 2    \* sockets created in one behaviour

(* new Pool({..., connectionTimeoutMillis: 10000, max: 20, ...}) *)
PoolMax == 20
ConnectionTimeoutMillis == 10000

(* what pg takes where new Pool({...}) names neither: ten connections,    *)
(* and a query that waits for one waits without limit                     *)
PoolDefaultMax == 10
NoTimeout == 0

(* the options of the pool each program constructs *)
PoolOptions(prog) ==
    IF prog = "retention"
    THEN [max |-> PoolMax, connectionTimeoutMillis |-> ConnectionTimeoutMillis]
    ELSE [max |-> PoolDefaultMax, connectionTimeoutMillis |-> NoTimeout]

----------------------------------------------------------------------------
(* JavaScript values. *)

Null == -999
NullS == "null"
Absent == [absent |-> TRUE]

Truthy(v) == v # Null /\ v # 0
TruthyS(s) == s # NullS /\ s # ""
TruthyO(o) == o # Absent

(* a || b on numbers and on strings *)
Or(a, b) == IF Truthy(a) THEN a ELSE b
OrS(a, b) == IF TruthyS(a) THEN a ELSE b

Digits == <<"0", "1", "2", "3", "4", "5", "6", "7", "8", "9">>

(* String(n) for a non-negative integer n *)
RECURSIVE NatStr(_)
NatStr(n) ==
    IF n < 10 THEN Digits[n + 1]
    ELSE NatStr(n \div 10) \o Digits[(n % 10) + 1]

(* String(v) for an integer *)
String(v) == IF v < 0 THEN "-" \o NatStr(0 - v) ELSE NatStr(v)

(* A JSON value that the feed may send as a number or as text: the ship   *)
(* type.  Num(n) is the number n, Text(s) the string s, JNull is null or  *)
(* a missing field.                                                       *)
Num(n) == [num |-> n]
Text(s) == [text |-> s]
JNull == [null |-> TRUE]
IsNum(v) == "num" \in DOMAIN v
IsText(v) == "text" \in DOMAIN v

(* truthiness of such a value: 0, "" and null are falsy *)
TruthyJ(v) == IF IsNum(v) THEN v.num # 0 ELSE IF IsText(v) THEN v.text # "" ELSE FALSE

(* String(v) of such a value, for a truthy v *)
StringJ(v) == IF IsNum(v) THEN String(v.num) ELSE v.text

Upper == <<"A", "B", "C", "D", "E", "F", "G", "H", "I", "J", "K", "L", "M",
           "N", "O", "P", "Q", "R", "S", "T", "U", "V", "W", "X", "Y", "Z">>
Lower == <<"a", "b", "c", "d", "e", "f", "g", "h", "i", "j", "k", "l", "m",
           "n", "o", "p", "q", "r", "s", "t", "u", "v", "w", "x", "y", "z">>

(* one character of s.toLowerCase(), for the letters A to Z *)
LowerChar(c) ==
    IF \E i \in DOMAIN Upper : Upper[i] = c
    THEN Lower[CHOOSE i \in DOMAIN Upper : Upper[i] = c]
    ELSE c

(* s.toLowerCase() *)
RECURSIVE toLowerCase(_)
toLowerCase(s) ==
    IF s = "" THEN ""
    ELSE LowerChar(SubSeq(s, 1, 1)) \o toLowerCase(SubSeq(s, 2, Len(s)))

(* s.includes(sub) *)
includes(s, sub) ==
    \E i \in 1..(Len(s) - Len(sub) + 1) : SubSeq(s, i, i + Len(sub) - 1) = sub

----------------------------------------------------------------------------
(* Inbound frames.  A frame either fails JSON.parse or parses to an object *)
(* with MessageType, MetaData and Message.{PositionReport,ShipStaticData}. *)

Unparseable == [unparseable |-> TRUE]

Meta(mmsi, shipName) == [MMSI |-> mmsi, ShipName |-> shipName]

Pos(lat, lon, sog, hdg, cog, nav) ==
    [Latitude |-> lat, Longitude |-> lon, Sog |-> sog, TrueHeading |-> hdg,
     Cog |-> cog, NavigationalStatus |-> nav]

Dim(a, b, c, d) == [A |-> a, B |-> b, C |-> c, D |-> d]

Static(name, callSign, imo, type, dim) ==
    [Name |-> name, CallSign |-> callSign, ImoNumber |-> imo, Type |-> type,
     Dimension |-> dim]

Msg(type, meta, pos, static) ==
    [MessageType |-> type, MetaData |-> meta, PositionReport |-> pos,
     ShipStaticData |-> static]

PositionMsg(meta, pos) == Msg("PositionReport", meta, pos, Absent)
StaticMsg(meta, static) == Msg("ShipStaticData", meta, Absent, static)

(* Frames the handler stores: positions of vessel 1 (named "A" by the    *)
(* feed) and of vessel 2 (unnamed), with and without the optional fields, *)
(* a full static report, one carrying nothing, one with zero offsets.     *)
P1 == Pos(10, 20, 5, 90, 80, 1)
P2 == Pos(-11, 21, Null, Null, Null, Null)
S1 == Static("B", "CS", 7, Num(36), Dim(10, 2, 3, 1))
S2 == Static(NullS, NullS, Null, JNull, Absent)
S3 == Static("C", NullS, Null, Num(70), Dim(0, 0, Null, 0))

StoredFrames ==
    { PositionMsg(Meta(1, "A"), P1), PositionMsg(Meta(1, "A"), P2),
      PositionMsg(Meta(2, NullS), P2),
      StaticMsg(Meta(1, "A"), S1), StaticMsg(Meta(1, "A"), S2),
      StaticMsg(Meta(2, NullS), S3) }

(* Static reports whose type the feed sends as text: one that names a     *)
(* yacht, one that names another category.                                *)
S4 == Static("D", NullS, Null, Text("Sailing Yacht"), Absent)
S5 == Static("E", NullS, Null, Text("Cargo"), Absent)

TextTypeFrames ==
    { StaticMsg(Meta(2, NullS), S4), StaticMsg(Meta(2, NullS), S5) }

(* Frames the handler drops: text that is no JSON, a coordinate of 0, a   *)
(* coordinate missing, the identity key or the whole MetaData missing.    *)
DroppedFrames ==
    { Unparseable,
      PositionMsg(Meta(1, "A"), Pos(0, 20, 5, 90, 80, 1)),
      PositionMsg(Meta(1, "A"), Pos(Null, 20, 5, 90, 80, 1)),
      PositionMsg(Meta(1, "A"), Pos(10, Null, 5, 90, 80, 1)),
      PositionMsg(Meta(Null, "A"), P1),
      StaticMsg(Absent, S1) }

Frames == StoredFrames \cup DroppedFrames

(* meta?.MMSI *)
MetaMMSI(msg) == IF TruthyO(msg.MetaData) THEN msg.MetaData.MMSI ELSE Null


----------------------------------------------------------------------------
(* The 'message' handler's conditions. *)

(* msg.MessageType === 'PositionReport' && msg.Message?.PositionReport *)
PositionBranch(msg) ==
    msg.MessageType = "PositionReport" /\ TruthyO(msg.PositionReport)

(* PositionAccepted without the test of the latitude *)
PositionAcceptedNoLatitude(msg) ==
    /\ Truthy(MetaMMSI(msg))
    /\ Truthy(msg.PositionReport.Longitude)

(* meta?.MMSI && pos.Latitude && pos.Longitude *)
PositionAccepted(msg) ==
    /\ Truthy(MetaMMSI(msg))
    /\ Truthy(msg.PositionReport.Latitude)
    /\ Truthy(msg.PositionReport.Longitude)

(* msg.MessageType === 'ShipStaticData' && msg.Message?.ShipStaticData *)
StaticBranch(msg) ==
    msg.MessageType = "ShipStaticData" /\ TruthyO(msg.ShipStaticData)

(* meta?.MMSI *)
StaticAccepted(msg) == Truthy(MetaMMSI(msg))

(* `Vessel ${meta.MMSI}` *)
SynthName(mmsi) == "Vessel " \o String(mmsi)

----------------------------------------------------------------------------
(* Query parameters, as the handler builds them. *)

(* the array of the INSERT INTO ais_positions *)
HistoryParams(msg) ==
    LET pos == msg.PositionReport
        meta == msg.MetaData
    IN [mmsi |-> String(meta.MMSI),
        vessel_name |-> OrS(meta.ShipName, NullS),
        latitude |-> pos.Latitude,
        longitude |-> pos.Longitude,
        speed |-> Or(pos.Sog, 0),
        heading |-> Or(pos.TrueHeading, 0),
        course |-> Or(pos.Cog, 0),
        nav_status |-> String(Or(pos.NavigationalStatus, 0)),
        message_type |-> "PositionReport"]

(* the array of the position branch's INSERT INTO vessels *)
PositionUpsertParams(msg) ==
    LET pos == msg.PositionReport
        meta == msg.MetaData
    IN [mmsi |-> String(meta.MMSI),
        name |-> OrS(meta.ShipName, SynthName(meta.MMSI)),
        last_latitude |-> pos.Latitude,
        last_longitude |-> pos.Longitude,
        last_speed |-> Or(pos.Sog, 0),
        last_heading |-> Or(pos.TrueHeading, 0)]

(* String(ship.Type || 'unknown') *)
ShipType(ship) == IF TruthyJ(ship.Type) THEN StringJ(ship.Type) ELSE "unknown"

(* shipType === '36' || shipType === '37' ||                              *)
(* shipType.toLowerCase().includes('yacht')                               *)
IsYacht(shipType) ==
    \/ shipType = "36"
    \/ shipType = "37"
    \/ includes(toLowerCase(shipType), "yacht")

(* ship.Dimension?.A and its siblings *)
DimOf(ship, f) == IF TruthyO(ship.Dimension) THEN ship.Dimension[f] ELSE Null

(* (x || 0) + (y || 0) || null *)
SumOrNull(x, y) == Or(Or(x, 0) + Or(y, 0), Null)

(* the array of the static branch's INSERT INTO vessels *)
StaticUpsertParams(msg) ==
    LET ship == msg.ShipStaticData
        meta == msg.MetaData
        shipType == ShipType(ship)
    IN [mmsi |-> String(meta.MMSI),
        name |-> OrS(ship.Name, OrS(meta.ShipName, SynthName(meta.MMSI))),
        callsign |-> OrS(ship.CallSign, NullS),
        imo |-> IF Truthy(ship.ImoNumber) THEN String(ship.ImoNumber)
                ELSE NullS,
        vessel_type |-> IF IsYacht(shipType) THEN "yacht" ELSE shipType,
        length |-> SumOrNull(DimOf(ship, "A"), DimOf(ship, "B")),
        width |-> SumOrNull(DimOf(ship, "C"), DimOf(ship, "D"))]

----------------------------------------------------------------------------
(* The store's statements.  t is the value of NOW(). *)

(* a row of vessels with every column NULL but the key *)
EmptyVessel(mmsi) ==
    [mmsi |-> mmsi, name |-> NullS, vessel_type |-> NullS,
     callsign |-> NullS, imo |-> NullS, flag |-> NullS,
     length |-> Null, width |-> Null,
     last_latitude |-> Null, last_longitude |-> Null, last_speed |-> Null,
     last_heading |-> Null, last_position_time |-> Null, updated_at |-> Null]

(* InsertHistory that makes room for the new row: the oldest row of the  *)
(* table is removed                                                       *)
InsertHistoryDropsOldest(rows, id, t, p) ==
    Append(IF rows = <<>> THEN rows ELSE Tail(rows),
        [id |-> id, mmsi |-> p.mmsi, vessel_name |-> p.vessel_name,
         latitude |-> p.latitude, longitude |-> p.longitude,
         speed |-> p.speed, heading |-> p.heading, course |-> p.course,
         nav_status |-> p.nav_status, timestamp |-> t,
         message_type |-> p.message_type, created_at |-> t])

(* INSERT INTO ais_positions (...) VALUES ($1..$8, NOW(), $9) *)
InsertHistory(rows, id, t, p) ==
    Append(rows,
        [id |-> id, mmsi |-> p.mmsi, vessel_name |-> p.vessel_name,
         latitude |-> p.latitude, longitude |-> p.longitude,
         speed |-> p.speed, heading |-> p.heading, course |-> p.course,
         nav_status |-> p.nav_status, timestamp |-> t,
         message_type |-> p.message_type, created_at |-> t])

(* UpsertPosition with name = $2 among the columns DO UPDATE sets *)
UpsertPositionSetsName(rows, t, p) ==
    IF \E r \in rows : r.mmsi = p.mmsi
    THEN { IF r.mmsi = p.mmsi
           THEN [r EXCEPT !.name = p.name,
                          !.last_latitude = p.last_latitude,
                          !.last_longitude = p.last_longitude,
                          !.last_speed = p.last_speed,
                          !.last_heading = p.last_heading,
                          !.last_position_time = t,
                          !.updated_at = t]
           ELSE r : r \in rows }
    ELSE rows \cup
         { [EmptyVessel(p.mmsi) EXCEPT !.name = p.name,
                                       !.last_latitude = p.last_latitude,
                                       !.last_longitude = p.last_longitude,
                                       !.last_speed = p.last_speed,
                                       !.last_heading = p.last_heading,
                                       !.last_position_time = t,
                                       !.updated_at = t] }

(* INSERT INTO vessels (mmsi, name, last_*...) ... ON CONFLICT (mmsi)     *)
(* DO UPDATE SET last_* = ..., last_position_time, updated_at             *)
UpsertPosition(rows, t, p) ==
    IF \E r \in rows : r.mmsi = p.mmsi
    THEN { IF r.mmsi = p.mmsi
           THEN [r EXCEPT !.last_latitude = p.last_latitude,
                          !.last_longitude = p.last_longitude,
                          !.last_speed = p.last_speed,
                          !.last_heading = p.last_heading,
                          !.last_position_time = t,
                          !.updated_at = t]
           ELSE r : r \in rows }
    ELSE rows \cup
         { [EmptyVessel(p.mmsi) EXCEPT !.name = p.name,
                                       !.last_latitude = p.last_latitude,
                                       !.last_longitude = p.last_longitude,
                                       !.last_speed = p.last_speed,
                                       !.last_heading = p.last_heading,
                                       !.last_position_time = t,
                                       !.updated_at = t] }

(* UpsertStatic with vessel_type missing from the INSERT's column list *)
UpsertStaticInsertOmitsType(rows, t, p) ==
    LET set(r) == [r EXCEPT !.name = p.name,
                            !.callsign = p.callsign,
                            !.imo = p.imo,
                            !.vessel_type = p.vessel_type,
                            !.length = p.length,
                            !.width = p.width,
                            !.updated_at = t]
    IN IF \E r \in rows : r.mmsi = p.mmsi
       THEN { IF r.mmsi = p.mmsi THEN set(r) ELSE r : r \in rows }
       ELSE rows \cup { [set(EmptyVessel(p.mmsi)) EXCEPT !.vessel_type = NullS] }

(* INSERT INTO vessels (mmsi, name, callsign, imo, vessel_type, length,   *)
(* width, updated_at) ... ON CONFLICT (mmsi) DO UPDATE SET the same       *)
UpsertStatic(rows, t, p) ==
    LET set(r) == [r EXCEPT !.name = p.name,
                            !.callsign = p.callsign,
                            !.imo = p.imo,
                            !.vessel_type = p.vessel_type,
                            !.length = p.length,
                            !.width = p.width,
                            !.updated_at = t]
    IN IF \E r \in rows : r.mmsi = p.mmsi
       THEN { IF r.mmsi = p.mmsi THEN set(r) ELSE r : r \in rows }
       ELSE rows \cup { set(EmptyVessel(p.mmsi)) }


----------------------------------------------------------------------------
(* Handler invocations. *)

(* n: the frame's arrival number; subs: subscriptions sent on its socket  *)
(* when it arrived; pc: the query awaited; ins: the fate of the history   *)
(* INSERT; appended: ids of the history rows it inserted.                 *)
Handler(n, subs, data, pc, ins, appended) ==
    [n |-> n, subs |-> subs, data |-> data, pc |-> pc, ins |-> ins,
     appended |-> appended]

(* ups: the fate of the vessel upsert; error: the catch block ran *)
Returned(h, ups, error) ==
    [n |-> h.n, subs |-> h.subs, data |-> h.data, ins |-> h.ins, ups |-> ups,
     appended |-> h.appended, error |-> error]

NoneReturned ==
    Returned(Handler(0, 0, Unparseable, "none", "none", {}), "none", FALSE)

(* TryCatch with a catch block that throws the error again *)
TryCatchRethrows(threw) == [error |-> threw, escaped |-> threw]

(* try { ... } catch (error) { console.error(...) }: an exception thrown  *)
(* in the body is logged and the handler returns normally.                *)
TryCatch(threw) == [error |-> threw, escaped |-> FALSE]

(* Where the handler stands when it first gives up control.               *)
FirstAwait(data) ==
    IF data = Unparseable THEN "throw"
    ELSE IF PositionBranch(data) /\ PositionAccepted(data) THEN "insert"
    ELSE IF StaticBranch(data) /\ StaticAccepted(data) THEN "static"
    ELSE "return"

(* Where the handler goes once the position branch is over. *)
AfterPosition(data) ==
    IF StaticBranch(data) /\ StaticAccepted(data) THEN "static" ELSE "return"

(* The handler returns: h is its record, ups the fate of its upsert. *)
Return(h, ups, threw) ==
    /\ last' = Returned(h, ups, TryCatch(threw).error)
    /\ escaped' = (escaped \/ TryCatch(threw).escaped)

(* The pool is shared by the message handlers, by cleanupOldData, by the  *)
(* callbacks of the /api routes and by the bootstrap.  A pending query is  *)
(* named by its owner: the handler's record, the record of the             *)
(* cleanupOldData invocation, the request's record, or BootQuery.          *)
IsHandler(q) == "data" \in DOMAIN q
BootQuery == [boot |-> TRUE]

InQueue(queue, q) == \E i \in 1..Len(queue) : queue[i] = q

(* the query of q waits for a connection *)
Waits(q) == InQueue(queued, q)

(* every suspended handler *)
Handlers ==
    inflight \cup {queued[i] : i \in {j \in 1..Len(queued) : IsHandler(queued[j])}}

(* a query of the bootstrap is pending: SELECT NOW() or CREATE TABLE *)
Booting == phase \in {"connect", "create", "load"}

(* the pending invocations of cleanupOldData and of the route callbacks *)
Callers == runs \cup requests

(* Connections in use in pool = <<handlers holding one, queries waiting>>, *)
(* where rs are the pending invocations of cleanupOldData and of the route *)
(* callbacks, and boot tells whether a query of the bootstrap is pending.  *)
InUse(pool, rs, boot) ==
    Cardinality(pool[1])
    + Cardinality({r \in rs : ~InQueue(pool[2], r)})
    + (IF boot /\ ~InQueue(pool[2], BootQuery) THEN 1 ELSE 0)

(* pool.query(...): the query takes a pooled connection if fewer than max *)
(* are in use, and otherwise waits behind the queries issued before it.   *)
IssueAmong(pool, q, rs, boot) ==
    IF InUse(pool, rs, boot) < PoolOptions(program).max
    THEN <<IF IsHandler(q) THEN pool[1] \cup {q} ELSE pool[1], pool[2]>>
    ELSE <<pool[1], Append(pool[2], q)>>

(* pool.query(...) of a message handler *)
Issue(pool, h) == IssueAmong(pool, h, Callers, Booting)

(* the pool after a step *)
PoolBecomes(pool) == inflight' = pool[1] /\ queued' = pool[2]

(* a connection is free: it goes to the first waiting query *)
Grant(pool) ==
    IF pool[2] = <<>>
    THEN pool
    ELSE <<IF IsHandler(Head(pool[2])) THEN pool[1] \cup {Head(pool[2])}
           ELSE pool[1],
           Tail(pool[2])>>

(* The query of handler h ends: its connection goes to the first waiting  *)
(* query.                                                                 *)
Release(h) == Grant(<<inflight \ {h}, queued>>)

(* connectionTimeoutMillis: the waiting query of q is rejected and leaves *)
(* the queue                                                              *)
Withdraw(q) == <<inflight \ {q}, SelectSeq(queued, LAMBDA x : x # q)>>

(* The query of q can be rejected: by the store while it holds a          *)
(* connection, by the pool's timeout while it waits for one.              *)
Rejectable(q) ==
    Waits(q) => PoolOptions(program).connectionTimeoutMillis > 0

(* the pool once the query of handler h was rejected *)
Reject(h) == IF Waits(h) THEN Withdraw(h) ELSE Release(h)

(* the pool once the query of another owner q ended, by answer or by      *)
(* rejection                                                              *)
Leave(q) == IF Waits(q) THEN Withdraw(q) ELSE Grant(<<inflight, queued>>)

----------------------------------------------------------------------------
(* The feed connection. *)

Socket(state, subs) == [state |-> state, subs |-> subs]

(* connectAIS: ws = new WebSocket(...) and the four ws.on registrations *)
ConnectAIS(socks) == Append(socks, Socket("CONNECTING", 0))

(* Configured without the test of AISSTREAM_API_KEY *)
ConfiguredStoreOnly == env.DATABASE_URL

(* if (!process.env.DATABASE_URL) ... if (!process.env.AISSTREAM_API_KEY) *)
Configured == env.DATABASE_URL /\ env.AISSTREAM_API_KEY

(* process.exit(1): the process is gone, and with it its timers and every *)
(* callback and every invocation of cleanupOldData that was suspended at  *)
(* a query; none of them returns                                          *)
ProcessExit ==
    /\ phase' = "exited"
    /\ interval' = FALSE
    /\ runs' = {}
    /\ requests' = {}
    /\ PoolBecomes(<<{}, <<>>>>)

(* app.listen callback, a mandatory variable unset: process.exit(1) *)
ListenUnconfigured ==
    /\ program = "yacht"
    /\ phase = "boot"
    /\ ~Configured
    /\ ProcessExit
    /\ UNCHANGED <<program, env, sockets, timers, received, last,
                   escaped, vessels, positions, nextId, now>>
    /\ UNCHANGED <<tables, attempt, due, started, ended>>

(* app.listen callback up to its first await: both variables are set,     *)
(* initDatabase() issues SELECT NOW() and the callback is suspended       *)
ListenInit ==
    /\ program = "yacht"
    /\ phase = "boot"
    /\ Configured
    /\ phase' = "connect"
    /\ PoolBecomes(IssueAmong(<<inflight, queued>>, BootQuery, Callers, FALSE))
    /\ UNCHANGED requests
    /\ UNCHANGED <<program, env, sockets, timers, received, last,
                   escaped, vessels, positions, nextId, now>>
    /\ UNCHANGED retention

(* initDatabase: SELECT NOW() is answered; the CREATE TABLE IF NOT EXISTS *)
(* statements are issued and the callback is suspended again              *)
InitConnected ==
    /\ program = "yacht"
    /\ phase = "connect"
    /\ ~Waits(BootQuery)
    /\ phase' = "create"
    /\ PoolBecomes(IssueAmong(Grant(<<inflight, queued>>), BootQuery, Callers,
                              FALSE))
    /\ UNCHANGED requests
    /\ UNCHANGED <<program, env, sockets, timers, received, last,
                   escaped, vessels, positions, nextId, now>>
    /\ UNCHANGED retention

(* initDatabase: SELECT NOW() or the CREATE TABLE statements are rejected; *)
(* its catch block throws the error again and the callback answers with    *)
(* process.exit(1)                                                         *)
ListenInitFails ==
    /\ program = "yacht"
    /\ phase \in {"connect", "create"}
    /\ Rejectable(BootQuery)
    /\ ProcessExit
    /\ UNCHANGED <<program, env, sockets, timers, received, last,
                   escaped, vessels, positions, nextId, now>>
    /\ UNCHANGED <<tables, attempt, due, started, ended>>

(* initDatabase: the CREATE TABLE statements are answered and              *)
(* initDatabase() returns; the callback goes on with connectAIS()          *)
Startup ==
    /\ program = "yacht"
    /\ phase = "create"
    /\ ~Waits(BootQuery)
    /\ PoolBecomes(Grant(<<inflight, queued>>))
    /\ phase' = "running"
    /\ sockets' = ConnectAIS(sockets)
    /\ UNCHANGED requests
    /\ UNCHANGED <<program, env, timers, received, last, escaped,
                   vessels, positions, nextId, now>>
    /\ tables' = TRUE
    /\ UNCHANGED <<attempt, interval, due, runs, started, ended>>

(* WsOpen without the ws.send of the subscription *)
WsOpenSendsNothing(s) ==
    /\ sockets[s].state = "CONNECTING"
    /\ sockets' = [sockets EXCEPT ![s].state = "OPEN"]
    /\ UNCHANGED requests
    /\ UNCHANGED <<program, env, phase, timers, inflight, queued, received, last, escaped,
                   vessels, positions, nextId, now>>
    /\ UNCHANGED retention

(* ws.on('open'): ws.send(JSON.stringify(subscription)) on the global ws; *)
(* send throws on a socket that is still connecting.                      *)
WsOpen(s) ==
    /\ sockets[s].state = "CONNECTING"
    /\ LET opened == [sockets EXCEPT ![s].state = "OPEN"]
           ws == Len(sockets)
       IN /\ sockets' = IF opened[ws].state = "OPEN"
                        THEN [opened EXCEPT ![ws].subs = @ + 1]
                        ELSE opened
          /\ escaped' = (escaped \/ opened[ws].state = "CONNECTING")
    /\ UNCHANGED requests
    /\ UNCHANGED <<program, env, phase, timers, inflight, queued, received, last, vessels,
                   positions, nextId, now>>
    /\ UNCHANGED retention

(* WsError with the setTimeout(connectAIS, ...) of the 'close' handler *)
WsErrorReconnects(s) ==
    /\ sockets[s].state \in {"CONNECTING", "OPEN"}
    /\ sockets' = [sockets EXCEPT ![s].state = "CLOSING"]
    /\ timers' = timers + 1
    /\ UNCHANGED requests
    /\ UNCHANGED <<program, env, phase, inflight, queued, received, last, escaped,
                   vessels, positions, nextId, now>>
    /\ UNCHANGED retention

(* ws.on('error'): console.error only.  The socket that failed is closing *)
(* and its 'close' event follows.                                         *)
WsError(s) ==
    /\ sockets[s].state \in {"CONNECTING", "OPEN"}
    /\ sockets' = [sockets EXCEPT ![s].state = "CLOSING"]
    /\ UNCHANGED requests
    /\ UNCHANGED <<program, env, phase, timers, inflight, queued, received, last, escaped,
                   vessels, positions, nextId, now>>
    /\ UNCHANGED retention

(* ws.on('close'): setTimeout(connectAIS, 100), or, in the second program *)
(* of src/unnamed/part_001, setTimeout(connectAIS, RECONNECT_DELAY); the   *)
(* timer is pending for as long as the delay lasts.                        *)
WsClose(s) ==
    /\ sockets[s].state \in {"OPEN", "CLOSING"}
    /\ sockets' = [sockets EXCEPT ![s].state = "CLOSED"]
    /\ timers' = timers + 1
    /\ UNCHANGED requests
    /\ UNCHANGED <<program, env, phase, inflight, queued, received, last, escaped, vessels,
                   positions, nextId, now>>
    /\ UNCHANGED retention

(* TimerFires of a client that gives up once an attempt has failed: the   *)
(* timer only reconnects after a connection that had opened               *)
TimerFiresGivesUp ==
    /\ timers > 0
    /\ Len(sockets) < MaxConnects
    /\ sockets[Len(sockets)].subs > 0
    /\ timers' = timers - 1
    /\ sockets' = ConnectAIS(sockets)
    /\ UNCHANGED requests
    /\ UNCHANGED <<program, env, phase, inflight, queued, received, last, escaped, vessels,
                   positions, nextId, now>>
    /\ UNCHANGED retention

(* the reconnect timer fires: connectAIS() *)
TimerFires ==
    /\ timers > 0
    /\ Len(sockets) < MaxConnects
    /\ timers' = timers - 1
    /\ sockets' = ConnectAIS(sockets)
    /\ UNCHANGED requests
    /\ UNCHANGED <<program, env, phase, inflight, queued, received, last, escaped, vessels,
                   positions, nextId, now>>
    /\ UNCHANGED retention

----------------------------------------------------------------------------
(* ws.on('message', async (data) => ...), cut at its awaits. *)

(* A frame arrives on an open socket; the handler runs to its first await *)
(* or to its end.                                                         *)
WsMessage(s, data) ==
    /\ sockets[s].state = "OPEN"
    /\ received < MaxMsgs
    /\ received' = received + 1
    /\ LET pc == FirstAwait(data)
           h == Handler(received + 1, sockets[s].subs, data, pc, "none", {})
       IN IF pc \in {"insert", "static"}
          THEN /\ PoolBecomes(Issue(<<inflight, queued>>, h))
               /\ UNCHANGED <<last, escaped>>
          ELSE /\ Return(h, "none", pc = "throw")
               /\ UNCHANGED <<inflight, queued>>
    /\ UNCHANGED requests
    /\ UNCHANGED <<program, env, phase, sockets, timers, vessels, positions, nextId, now>>
    /\ UNCHANGED retention

(* The history INSERT succeeds; the handler issues the vessel upsert. *)
InsertDone(h) ==
    /\ h.pc = "insert"
    /\ positions' = InsertHistory(positions, nextId, now,
                                  HistoryParams(h.data))
    /\ nextId' = nextId + 1
    /\ now' = now + 1
    /\ PoolBecomes(Issue(Release(h),
                          [h EXCEPT !.pc = "upsert", !.ins = "ok",
                                    !.appended = @ \cup {nextId}]))
    /\ UNCHANGED requests
    /\ UNCHANGED <<program, env, phase, sockets, timers, received, last, escaped, vessels>>
    /\ UNCHANGED retention

(* The history INSERT fails: pool.query rejects, the await throws. *)
InsertFails(h) ==
    /\ h.pc = "insert"
    /\ Rejectable(h)
    /\ PoolBecomes(Reject(h))
    /\ Return([h EXCEPT !.ins = "failed"], "none", TRUE)
    /\ UNCHANGED requests
    /\ UNCHANGED <<program, env, phase, sockets, timers, received, vessels, positions,
                   nextId, now>>
    /\ UNCHANGED retention

(* The pending vessel upsert of either branch succeeds (src/index.js). *)
UpsertDone(h) ==
    /\ program = "yacht"
    /\ h.pc \in {"upsert", "static"}
    /\ vessels' = IF h.pc = "upsert"
                  THEN UpsertPosition(vessels, now,
                                      PositionUpsertParams(h.data))
                  ELSE UpsertStatic(vessels, now, StaticUpsertParams(h.data))
    /\ now' = now + 1
    /\ IF h.pc = "upsert" /\ AfterPosition(h.data) = "static"
       THEN /\ PoolBecomes(Issue(Release(h), [h EXCEPT !.pc = "static"]))
            /\ UNCHANGED <<last, escaped>>
       ELSE /\ PoolBecomes(Release(h))
            /\ Return(h, "ok", FALSE)
    /\ UNCHANGED requests
    /\ UNCHANGED <<program, env, phase, sockets, timers, received, positions, nextId>>
    /\ UNCHANGED retention

(* The pending vessel upsert fails. *)
UpsertFails(h) ==
    /\ h.pc \in {"upsert", "static"}
    /\ Rejectable(h)
    /\ PoolBecomes(Reject(h))
    /\ Return(h, "failed", TRUE)
    /\ UNCHANGED requests
    /\ UNCHANGED <<program, env, phase, sockets, timers, received, vessels, positions,
                   nextId, now>>
    /\ UNCHANGED retention

----------------------------------------------------------------------------
(* The /api routes: app.get(route, async (req, res) => ...), cut at the    *)
(* await of its one pool.query.  The response leaves the process and is    *)
(* no part of its state: the rows with res.json, or status 500 with the    *)
(* error's message.                                                        *)

MaxRequests == 1    \* requests to the /api routes that are pending at once

Routes == {"/api/vessels", "/api/positions", "/api/positions/since"}

(* a pending request to route; n tells it from the others that are pending *)
Request(n, route) == [req |-> n, route |-> route]

(* a number no pending request has *)
FreeRequest ==
    CHOOSE n \in 1..MaxRequests :
        /\ \A q \in requests : q.req # n
        /\ \A m \in 1..(n - 1) : \E q \in requests : q.req = m

(* The HTTP server accepts requests from the moment the app.listen        *)
(* callback is called until the process exits.                            *)
Serving == phase \in {"connect", "delay", "create", "running"}

(* a request arrives: the callback issues its SELECT and is suspended *)
Get(route) ==
    /\ Serving
    /\ Cardinality(requests) < MaxRequests
    /\ requests' = requests \cup {Request(FreeRequest, route)}
    /\ PoolBecomes(IssueAmong(<<inflight, queued>>,
                              Request(FreeRequest, route), Callers, Booting))
    /\ UNCHANGED <<program, env, phase, sockets, timers, received, last, escaped,
                   vessels, positions, nextId, now>>
    /\ UNCHANGED retention

(* the SELECT is answered: res.json(result.rows) *)
GetDone(q) ==
    /\ phase # "exited"
    /\ ~Waits(q)
    /\ tables
    /\ requests' = requests \ {q}
    /\ PoolBecomes(Leave(q))
    /\ UNCHANGED <<program, env, phase, sockets, timers, received, last, escaped,
                   vessels, positions, nextId, now>>
    /\ UNCHANGED retention

(* the SELECT is rejected, as it is while the tables do not exist:        *)
(* catch (error) { res.status(500).json({ error: error.message }) }       *)
GetFails(q) ==
    /\ phase # "exited"
    /\ Rejectable(q)
    /\ requests' = requests \ {q}
    /\ PoolBecomes(Leave(q))
    /\ UNCHANGED <<program, env, phase, sockets, timers, received, last, escaped,
                   vessels, positions, nextId, now>>
    /\ UNCHANGED retention

----------------------------------------------------------------------------
(* The deployment for all vessels (src/unnamed/part_001): the same feed    *)
(* and message handler, the static upsert without the yacht mapping, a     *)
(* bootstrap that retries the store connection, and cleanupOldData, called *)
(* once at startup and by a recurring timer.  The clock counts hours.      *)

MaxRuns == 2        \* cleanupOldData invocations in one behaviour

(* Where frames arrive beside retention runs or beside requests and        *)
(* reconnections, both are kept smaller: the frames received, and the      *)
(* invocations after which the timer still fires.                          *)
MaxFeed == 1
MaxSweeps == 1

(* connectWithRetry(maxRetries = 5, ...) *)
MaxRetries == 5

(* INTERVAL '48 hours' *)
RetentionHours == 48

(* setInterval(cleanupOldData, 6 * 60 * 60 * 1000) *)
CleanupEveryHours == 6

(* if (sizeGB > 70) *)
SizeCeilingGB == 70

(* what pg_database_size can report, in GiB: the ceiling and above it *)
SizesGB == {SizeCeilingGB, SizeCeilingGB + 1}

(* the static branch's parameters with vessel_type = shipType *)
StaticUpsertParamsAll(msg) ==
    [StaticUpsertParams(msg) EXCEPT !.vessel_type = ShipType(msg.ShipStaticData)]

(* The pending vessel upsert of either branch succeeds (all vessels). *)
UpsertDoneAll(h) ==
    /\ program # "yacht"
    /\ h.pc \in {"upsert", "static"}
    /\ vessels' = IF h.pc = "upsert"
                  THEN UpsertPosition(vessels, now,
                                      PositionUpsertParams(h.data))
                  ELSE UpsertStatic(vessels, now,
                                    StaticUpsertParamsAll(h.data))
    /\ now' = now + 1
    /\ IF h.pc = "upsert" /\ AfterPosition(h.data) = "static"
       THEN /\ PoolBecomes(Issue(Release(h), [h EXCEPT !.pc = "static"]))
            /\ UNCHANGED <<last, escaped>>
       ELSE /\ PoolBecomes(Release(h))
            /\ Return(h, "ok", FALSE)
    /\ UNCHANGED requests
    /\ UNCHANGED <<program, env, phase, sockets, timers, received, positions, nextId>>
    /\ UNCHANGED retention

(* One invocation of cleanupOldData.  by: "startup" or "timer"; pc: the   *)
(* query awaited; sizeGB, count, toDelete: its locals, 0 until assigned.  *)
Run(id, by, pc, sizeGB, count, toDelete) ==
    [id |-> id, by |-> by, pc |-> pc, sizeGB |-> sizeGB, count |-> count,
     toDelete |-> toDelete]

(* an invocation that returned: pc is the last query it awaited, error   *)
(* tells whether its catch block ran                                      *)
Ended(r, error) ==
    [id |-> r.id, by |-> r.by, pc |-> r.pc, sizeGB |-> r.sizeGB,
     error |-> error]

NoRun == Ended(Run(0, "none", "none", 0, 0, 0), FALSE)

(* cleanupOldData() up to its first await: the age-based DELETE is issued *)
(* to the pool as the caller leaves it                                    *)
CleanupOldData(by, pool, boot) ==
    /\ runs' = runs \cup {Run(Len(started) + 1, by, "age", 0, 0, 0)}
    /\ started' = Append(started, by)
    /\ PoolBecomes(IssueAmong(pool, Run(Len(started) + 1, by, "age", 0, 0, 0),
                              Callers, boot))

(* AgeDelete with created_at <= in place of created_at < *)
AgeDeleteInclusive(rows, t) ==
    SelectSeq(rows, LAMBDA r : ~(r.created_at <= t - RetentionHours))

(* DELETE FROM ais_positions WHERE created_at < NOW() - INTERVAL '48 hours' *)
AgeDelete(rows, t) ==
    SelectSeq(rows, LAMBDA r : ~(r.created_at < t - RetentionHours))

(* Math.ceil(count * 0.1) *)
ToDelete(count) == (count + 9) \div 10

(* SELECT id FROM ais_positions ORDER BY created_at ASC LIMIT n: every    *)
(* set of ids the statement can return (rows of equal created_at come in  *)
(* any order).                                                            *)
OldestIds(rows, n) ==
    LET idx == 1..Len(rows)
        k == IF n < Len(rows) THEN n ELSE Len(rows)
    IN { {rows[i].id : i \in I} :
           I \in { J \in SUBSET idx :
                     /\ Cardinality(J) = k
                     /\ \A i \in J, j \in idx \ J :
                           rows[i].created_at <= rows[j].created_at } }

(* DELETE FROM ais_positions WHERE id IN (ids) *)
DeleteIds(rows, ids) == SelectSeq(rows, LAMBDA r : r.id \notin ids)

(* The bootstrap of the deployment for all vessels. *)

(* app.listen callback up to its first await: process.exit(1) if a        *)
(* mandatory variable is unset, else initDatabase() -> connectWithRetry() *)
(* issues the first SELECT NOW()                                          *)
Listen ==
    /\ program = "retention"
    /\ phase = "boot"
    /\ IF Configured
       THEN /\ phase' = "connect" /\ attempt' = 0
            /\ UNCHANGED <<interval, runs, requests>>
            /\ PoolBecomes(IssueAmong(<<inflight, queued>>, BootQuery,
                                      Callers, FALSE))
       ELSE ProcessExit /\ UNCHANGED attempt
    /\ UNCHANGED <<program, env, sockets, timers, received, last,
                   escaped, vessels, positions, nextId, now>>
    /\ UNCHANGED <<tables, due, started, ended>>

(* connectWithRetry: SELECT NOW() succeeds, return (its local i is gone); *)
(* initDatabase issues the CREATE TABLE IF NOT EXISTS statements          *)
ConnectAttemptDone ==
    /\ program = "retention"
    /\ phase = "connect"
    /\ ~Waits(BootQuery)
    /\ phase' = "create"
    /\ attempt' = 0
    /\ PoolBecomes(IssueAmong(Grant(<<inflight, queued>>), BootQuery,
                              Callers, FALSE))
    /\ UNCHANGED requests
    /\ UNCHANGED <<program, env, sockets, timers, received, last,
                   escaped, vessels, positions, nextId, now>>
    /\ UNCHANGED <<tables, interval, due, runs, started, ended>>

(* ConnectAttemptFails without the else branch: it waits and retries      *)
(* after every failure                                                    *)
ConnectAttemptFailsRetriesForever ==
    /\ program = "retention"
    /\ phase = "connect"
    /\ Rejectable(BootQuery)
    /\ PoolBecomes(Leave(BootQuery))
    /\ phase' = "delay"
    /\ UNCHANGED requests
    /\ UNCHANGED <<program, env, sockets, timers, received, last,
                   escaped, vessels, positions, nextId, now>>
    /\ UNCHANGED retention

(* connectWithRetry: SELECT NOW() fails; if (i < maxRetries - 1) wait the *)
(* delay, else throw, which initDatabase rethrows and the callback        *)
(* answers with process.exit(1)                                           *)
ConnectAttemptFails ==
    /\ program = "retention"
    /\ phase = "connect"
    /\ Rejectable(BootQuery)
    /\ IF attempt < MaxRetries - 1
       THEN /\ phase' = "delay"
            /\ PoolBecomes(Leave(BootQuery))
            /\ UNCHANGED <<interval, runs, requests>>
       ELSE ProcessExit
    /\ UNCHANGED <<program, env, sockets, timers, received, last,
                   escaped, vessels, positions, nextId, now>>
    /\ UNCHANGED <<tables, attempt, due, started, ended>>

(* connectWithRetry: the delay is over; i++ and the next SELECT NOW() *)
RetryDelayDone ==
    /\ phase = "delay"
    /\ attempt' = attempt + 1
    /\ phase' = "connect"
    /\ PoolBecomes(IssueAmong(<<inflight, queued>>, BootQuery, Callers,
                              FALSE))
    /\ UNCHANGED requests
    /\ UNCHANGED <<program, env, sockets, timers, received, last,
                   escaped, vessels, positions, nextId, now>>
    /\ UNCHANGED <<tables, interval, due, runs, started, ended>>

(* CreateTablesDone without the call of cleanupOldData *)
CreateTablesDoneNoCleanup ==
    /\ program = "retention"
    /\ phase = "create"
    /\ ~Waits(BootQuery)
    /\ PoolBecomes(Grant(<<inflight, queued>>))
    /\ tables' = TRUE
    /\ phase' = "running"
    /\ sockets' = ConnectAIS(sockets)
    /\ UNCHANGED requests
    /\ UNCHANGED <<program, env, timers, received, last, escaped,
                   vessels, positions, nextId, now>>
    /\ UNCHANGED <<attempt, interval, due, runs, started, ended>>

(* initDatabase: the CREATE TABLE statements succeed; the callback goes   *)
(* on with connectAIS() and await cleanupOldData()                        *)
CreateTablesDone ==
    /\ program = "retention"
    /\ phase = "create"
    /\ ~Waits(BootQuery)
    /\ tables' = TRUE
    /\ phase' = "running"
    /\ sockets' = ConnectAIS(sockets)
    /\ CleanupOldData("startup", Grant(<<inflight, queued>>), FALSE)
    /\ UNCHANGED requests
    /\ UNCHANGED <<program, env, timers, received, last, escaped,
                   vessels, positions, nextId, now>>
    /\ UNCHANGED <<attempt, interval, due, ended>>

(* initDatabase: the CREATE TABLE statements fail: process.exit(1) *)
CreateTablesFails ==
    /\ program = "retention"
    /\ phase = "create"
    /\ Rejectable(BootQuery)
    /\ ProcessExit
    /\ UNCHANGED <<program, env, sockets, timers, received, last,
                   escaped, vessels, positions, nextId, now>>
    /\ UNCHANGED <<tables, attempt, due, started, ended>>

----------------------------------------------------------------------------
(* cleanupOldData, cut at its awaits, and the timer that calls it. *)

(* Time passes until the interval is due.  The listen callback runs as    *)
(* soon as the module is loaded; nothing bounds the time a query takes.   *)
ClockAdvances ==
    /\ phase \notin {"boot", "exited"}
    /\ interval
    /\ now < due
    /\ Len(started) < MaxRuns
    /\ now' = due
    /\ UNCHANGED requests
    /\ UNCHANGED <<program, env, phase, sockets, timers, inflight, queued, received,
                   last, escaped, vessels, positions, nextId>>
    /\ UNCHANGED retention

(* the interval fires: cleanupOldData() *)
CleanupTimerFires ==
    /\ phase # "exited"
    /\ interval
    /\ now >= due
    /\ Len(started) < MaxRuns
    /\ due' = due + CleanupEveryHours
    /\ CleanupOldData("timer", <<inflight, queued>>, Booting)
    /\ UNCHANGED requests
    /\ UNCHANGED <<program, env, phase, sockets, timers, received,
                   last, escaped, vessels, positions, nextId, now>>
    /\ UNCHANGED <<tables, attempt, interval, ended>>

(* the query of r was answered and r goes on to its next query *)
Continue(r, next) ==
    /\ runs' = (runs \ {r}) \cup {next}
    /\ PoolBecomes(IssueAmong(Grant(<<inflight, queued>>), next,
                              Callers \ {r}, Booting))

(* the invocation r returns, its locals as in final *)
Finish(r, final, error) ==
    /\ runs' = runs \ {r}
    /\ ended' = Ended(final, error)
    /\ PoolBecomes(Leave(r))

(* AgeDeleteDone with a second DELETE, of the vessels left without any    *)
(* history row                                                            *)
AgeDeleteDoneAlsoVessels(r) ==
    /\ phase # "exited"
    /\ ~Waits(r)
    /\ r.pc = "age"
    /\ tables
    /\ positions' = AgeDelete(positions, now)
    /\ vessels' = {v \in vessels :
                      \E i \in 1..Len(positions') : positions'[i].mmsi = v.mmsi}
    /\ Continue(r, [r EXCEPT !.pc = "size"])
    /\ UNCHANGED requests
    /\ UNCHANGED <<program, env, phase, sockets, timers, received,
                   last, escaped, nextId, now>>
    /\ UNCHANGED <<tables, attempt, interval, due, started, ended>>

(* the age-based DELETE succeeds; the size query is issued *)
AgeDeleteDone(r) ==
    /\ phase # "exited"
    /\ ~Waits(r)
    /\ r.pc = "age"
    /\ tables
    /\ positions' = AgeDelete(positions, now)
    /\ Continue(r, [r EXCEPT !.pc = "size"])
    /\ UNCHANGED requests
    /\ UNCHANGED <<program, env, phase, sockets, timers, received,
                   last, escaped, vessels, nextId, now>>
    /\ UNCHANGED <<tables, attempt, interval, due, started, ended>>

(* the size query answers gb; if (sizeGB > 70) the row count is issued,    *)
(* else the invocation returns                                            *)
SizeMeasured(r, gb) ==
    /\ phase # "exited"
    /\ ~Waits(r)
    /\ r.pc = "size"
    /\ IF gb > SizeCeilingGB
       THEN /\ Continue(r, [r EXCEPT !.pc = "count", !.sizeGB = gb])
            /\ UNCHANGED ended
       ELSE Finish(r, [r EXCEPT !.sizeGB = gb], FALSE)
    /\ UNCHANGED requests
    /\ UNCHANGED <<program, env, phase, sockets, timers, received,
                   last, escaped, vessels, positions, nextId, now>>
    /\ UNCHANGED <<tables, attempt, interval, due, started>>

(* the row count answers; toDelete is computed and the DELETE of the       *)
(* oldest rows is issued                                                  *)
CountDone(r) ==
    /\ phase # "exited"
    /\ ~Waits(r)
    /\ r.pc = "count"
    /\ tables
    /\ Continue(r, [r EXCEPT !.pc = "valve", !.count = Len(positions),
                             !.toDelete = ToDelete(Len(positions))])
    /\ UNCHANGED requests
    /\ UNCHANGED <<program, env, phase, sockets, timers, received,
                   last, escaped, vessels, positions, nextId, now>>
    /\ UNCHANGED <<tables, attempt, interval, due, started, ended>>

(* the DELETE of the oldest rows succeeds; the invocation returns *)
ValveDeleteDone(r) ==
    /\ phase # "exited"
    /\ ~Waits(r)
    /\ r.pc = "valve"
    /\ tables
    /\ \E ids \in OldestIds(positions, r.toDelete) :
          positions' = DeleteIds(positions, ids)
    /\ Finish(r, r, FALSE)
    /\ UNCHANGED requests
    /\ UNCHANGED <<program, env, phase, sockets, timers, received,
                   last, escaped, vessels, nextId, now>>
    /\ UNCHANGED <<tables, attempt, interval, due, started>>

(* CleanupFails without the try/catch of cleanupOldData: the rejection    *)
(* reaches the caller; the listen callback answers it with                *)
(* process.exit(1), and from the timer it is an unhandled rejection       *)
CleanupFailsUncaught(r) ==
    /\ phase # "exited"
    /\ Rejectable(r)
    /\ ended' = Ended(r, TRUE)
    /\ ProcessExit
    /\ UNCHANGED <<program, env, sockets, timers, received,
                   last, escaped, vessels, positions, nextId, now>>
    /\ UNCHANGED <<tables, attempt, due, started>>

(* the pending query of r fails: catch (error) { console.error(...) } *)
CleanupFails(r) ==
    /\ phase # "exited"
    /\ Rejectable(r)
    /\ Finish(r, r, TRUE)
    /\ UNCHANGED requests
    /\ UNCHANGED <<program, env, phase, sockets, timers, received,
                   last, escaped, vessels, positions, nextId, now>>
    /\ UNCHANGED <<tables, attempt, interval, due, started>>

----------------------------------------------------------------------------
(* The second program of src/unnamed/part_001 (lines 319-535): the tables  *)
(* are created by a top-level await while the module loads, the listen     *)
(* callback calls connectAIS() without a test of the configuration, the    *)
(* handler stores all vessels, and nothing else uses the store.            *)

(* await pool.query(CREATE TABLE IF NOT EXISTS ...) at the top level      *)
(* resolves: the module goes on to app.listen(port, ...)                  *)
LoadCreateTablesDone ==
    /\ program = "plain"
    /\ phase = "load"
    /\ ~Waits(BootQuery)
    /\ PoolBecomes(Grant(<<inflight, queued>>))
    /\ tables' = TRUE
    /\ phase' = "listen"
    /\ UNCHANGED requests
    /\ UNCHANGED <<program, env, sockets, timers, received, last, escaped,
                   vessels, positions, nextId, now>>
    /\ UNCHANGED <<attempt, interval, due, runs, started, ended>>

(* the top-level await rejects: the module fails to load and the process  *)
(* ends before app.listen is reached                                      *)
LoadCreateTablesFails ==
    /\ program = "plain"
    /\ phase = "load"
    /\ Rejectable(BootQuery)
    /\ PoolBecomes(Leave(BootQuery))
    /\ phase' = "exited"
    /\ UNCHANGED requests
    /\ UNCHANGED <<program, env, sockets, timers, received, last, escaped,
                   vessels, positions, nextId, now>>
    /\ UNCHANGED retention

(* app.listen(port, () => { console.log(...); connectAIS(); }) *)
ListenPlain ==
    /\ program = "plain"
    /\ phase = "listen"
    /\ phase' = "running"
    /\ sockets' = ConnectAIS(sockets)
    /\ UNCHANGED requests
    /\ UNCHANGED <<program, env, timers, inflight, queued, received, last,
                   escaped, vessels, positions, nextId, now>>
    /\ UNCHANGED retention

----------------------------------------------------------------------------

Init ==
    /\ program = "yacht"
    /\ env \in [DATABASE_URL : BOOLEAN, AISSTREAM_API_KEY : BOOLEAN]
    /\ phase = "boot"
    /\ sockets = <<>>
    /\ timers = 0
    /\ inflight = {}
    /\ queued = <<>>
    /\ received = 0
    /\ last = NoneReturned
    /\ escaped = FALSE
    /\ vessels = {}
    /\ positions = <<>>
    /\ nextId = 1
    /\ now = 1
    /\ tables = FALSE
    /\ attempt = 0
    /\ interval = FALSE
    /\ due = 0
    /\ runs = {}
    /\ started = <<>>
    /\ ended = NoRun
    /\ requests = {}

Next ==
    \/ ListenUnconfigured
    \/ ListenInit
    \/ InitConnected
    \/ ListenInitFails
    \/ Startup
    \/ \E s \in 1..Len(sockets) : WsOpen(s)
    \/ \E s \in 1..Len(sockets) : WsError(s)
    \/ \E s \in 1..Len(sockets) : WsClose(s)
    \/ TimerFires
    \/ \E s \in 1..Len(sockets), data \in Frames : WsMessage(s, data)
    \/ \E h \in inflight : InsertDone(h)
    \/ \E h \in Handlers : InsertFails(h)
    \/ \E h \in inflight : UpsertDone(h)
    \/ \E h \in Handlers : UpsertFails(h)

(* src/index.js with every frame the feed can send and every failure of   *)
(* the feed and of the store, while no client requests the /api routes;    *)
(* requests are served in SpecStored, SpecStamped and SpecLive.            *)
Spec == Init /\ [][Next]_vars

(* The deployment for all vessels starts against a store that outlives    *)
(* the process: a new one without tables, or the tables as earlier runs   *)
(* of the handler left them, here with positions of vessel 1 written 72,  *)
(* 48 and 1 hours before the start at time t.                             *)
PriorFrame == PositionMsg(Meta(1, "A"), P1)

PriorHistory(t) ==
    InsertHistory(
        InsertHistory(
            InsertHistory(<<>>, 1, t - 72, HistoryParams(PriorFrame)),
            2, t - RetentionHours, HistoryParams(PriorFrame)),
        3, t - 1, HistoryParams(PriorFrame))

PriorStores(t) ==
    { [tables |-> FALSE, vessels |-> {}, positions |-> <<>>, nextId |-> 1],
      [tables |-> TRUE,
       vessels |-> UpsertPosition({}, t - 1, PositionUpsertParams(PriorFrame)),
       positions |-> PriorHistory(t), nextId |-> 4] }

(* the frames the feed delivers in this deployment *)
RetentionFrames ==
    { PositionMsg(Meta(2, NullS), P2), StaticMsg(Meta(1, "A"), S1) }

InitRetention ==
    /\ program = "retention"
    /\ env \in [DATABASE_URL : BOOLEAN, AISSTREAM_API_KEY : BOOLEAN]
    /\ phase = "boot"
    /\ sockets = <<>>
    /\ timers = 0
    /\ inflight = {}
    /\ queued = <<>>
    /\ received = 0
    /\ last = NoneReturned
    /\ escaped = FALSE
    /\ now = 100
    /\ \E store \in PriorStores(100) :
          /\ tables = store.tables
          /\ vessels = store.vessels
          /\ positions = store.positions
          /\ nextId = store.nextId
    /\ attempt = 0
    /\ interval = TRUE
    /\ due = 100 + CleanupEveryHours
    /\ runs = {}
    /\ started = <<>>
    /\ ended = NoRun
    /\ requests = {}

(* The deployment for all vessels on a feed that stays up once it is       *)
(* connected: the bootstrap, the handler of up to MaxFeed frames and the   *)
(* retention runs beside it.  The feed's failures and reconnections, which *)
(* change sockets and timers only, are in NextBootstrap; the requests to   *)
(* the /api routes, which change the pool only, are in NextStartup.        *)
NextRetention ==
    \/ Listen
    \/ ConnectAttemptDone
    \/ ConnectAttemptFails
    \/ RetryDelayDone
    \/ CreateTablesDone
    \/ CreateTablesFails
    \/ \E s \in 1..Len(sockets) : WsOpen(s)
    \/ \E s \in 1..Len(sockets), data \in RetentionFrames :
           received < MaxFeed /\ WsMessage(s, data)
    \/ \E h \in inflight : InsertDone(h)
    \/ \E h \in Handlers : InsertFails(h)
    \/ \E h \in inflight : UpsertDoneAll(h)
    \/ \E h \in Handlers : UpsertFails(h)
    \/ Len(started) < MaxSweeps /\ ClockAdvances
    \/ Len(started) < MaxSweeps /\ CleanupTimerFires
    \/ \E r \in runs : AgeDeleteDone(r)
    \/ \E r \in runs, gb \in SizesGB : SizeMeasured(r, gb)
    \/ \E r \in runs : CountDone(r)
    \/ \E r \in runs : ValveDeleteDone(r)
    \/ \E r \in runs : CleanupFails(r)

SpecRetention == InitRetention /\ [][NextRetention]_vars

(* The same deployment while the feed delivers no frame: the bootstrap,    *)
(* the feed client's connections, failures and reconnections, and the      *)
(* retention runs, up to MaxRuns of them.  No client requests the /api    *)
(* routes here; NextStartup has the requests.                              *)
NextBootstrap ==
    \/ Listen
    \/ ConnectAttemptDone
    \/ ConnectAttemptFails
    \/ RetryDelayDone
    \/ CreateTablesDone
    \/ CreateTablesFails
    \/ \E s \in 1..Len(sockets) : WsOpen(s)
    \/ \E s \in 1..Len(sockets) : WsError(s)
    \/ \E s \in 1..Len(sockets) : WsClose(s)
    \/ TimerFires
    \/ ClockAdvances
    \/ CleanupTimerFires
    \/ \E r \in runs : AgeDeleteDone(r)
    \/ \E r \in runs, gb \in SizesGB : SizeMeasured(r, gb)
    \/ \E r \in runs : CountDone(r)
    \/ \E r \in runs : ValveDeleteDone(r)
    \/ \E r \in runs : CleanupFails(r)

SpecBootstrap == InitRetention /\ [][NextBootstrap]_vars

(* The same deployment from its start until the run of cleanupOldData     *)
(* that startup calls has returned, while requests to the /api routes      *)
(* arrive: the server answers them from the first attempt to connect on,   *)
(* during the delays between the attempts too.                             *)
NextStartup ==
    \/ Listen
    \/ ConnectAttemptDone
    \/ ConnectAttemptFails
    \/ RetryDelayDone
    \/ CreateTablesDone
    \/ CreateTablesFails
    \/ \E route \in Routes : Get(route)
    \/ \E q \in requests : GetDone(q)
    \/ \E q \in requests : GetFails(q)
    \/ \E r \in runs : AgeDeleteDone(r)
    \/ \E r \in runs, gb \in SizesGB : SizeMeasured(r, gb)
    \/ \E r \in runs : CountDone(r)
    \/ \E r \in runs : ValveDeleteDone(r)
    \/ \E r \in runs : CleanupFails(r)

SpecStartup == InitRetention /\ [][NextStartup]_vars

(* The yacht deployment on a feed that stays up and delivers only frames   *)
(* the handler stores, those with a type sent as text among them: every    *)
(* vessel table the program can build, without the reconnections and the   *)
(* dropped frames, which never touch the store, and while clients request *)
(* the table with GET /api/vessels.                                        *)
NextStored ==
    \/ ListenUnconfigured
    \/ ListenInit
    \/ InitConnected
    \/ ListenInitFails
    \/ Startup
    \/ \E s \in 1..Len(sockets) : WsOpen(s)
    \/ \E s \in 1..Len(sockets), data \in StoredFrames \cup TextTypeFrames :
           WsMessage(s, data)
    \/ \E h \in inflight : InsertDone(h)
    \/ \E h \in Handlers : InsertFails(h)
    \/ \E h \in inflight : UpsertDone(h)
    \/ \E h \in Handlers : UpsertFails(h)
    \/ \E route \in {"/api/vessels"} : Get(route)
    \/ \E q \in requests : GetDone(q)
    \/ \E q \in requests : GetFails(q)

SpecStored == Init /\ [][NextStored]_vars

(* The second program of src/unnamed/part_001 as its module starts to     *)
(* load, against a new store: the CREATE TABLE statements are pending.     *)
InitPlain ==
    /\ program = "plain"
    /\ env \in [DATABASE_URL : BOOLEAN, AISSTREAM_API_KEY : BOOLEAN]
    /\ phase = "load"
    /\ sockets = <<>>
    /\ timers = 0
    /\ inflight = {}
    /\ queued = <<>>
    /\ received = 0
    /\ last = NoneReturned
    /\ escaped = FALSE
    /\ vessels = {}
    /\ positions = <<>>
    /\ nextId = 1
    /\ now = 1
    /\ tables = FALSE
    /\ attempt = 0
    /\ interval = FALSE
    /\ due = 0
    /\ runs = {}
    /\ started = <<>>
    /\ ended = NoRun
    /\ requests = {}

(* MetaData as the feed sends it, with time_utc, the time the source       *)
(* asserts for the report.  The handler reads MMSI and ShipName only.      *)
MetaAt(mmsi, shipName, t) ==
    [MMSI |-> mmsi, ShipName |-> shipName, time_utc |-> t]

(* Two position reports of vessel 1 and a static report of vessel 2, each  *)
(* with the time its source asserts, in the unit of the store's clock.     *)
StampedFrames ==
    { PositionMsg(MetaAt(1, "A", 1), P1), PositionMsg(MetaAt(1, "A", 2), P2),
      StaticMsg(MetaAt(2, NullS, 2), S3) }

(* The yacht deployment on a feed that stays up and delivers frames with   *)
(* their source times, while clients request the /api routes.              *)
NextStamped ==
    \/ ListenUnconfigured
    \/ ListenInit
    \/ InitConnected
    \/ ListenInitFails
    \/ Startup
    \/ \E s \in 1..Len(sockets) : WsOpen(s)
    \/ \E s \in 1..Len(sockets), data \in StampedFrames : WsMessage(s, data)
    \/ \E h \in inflight : InsertDone(h)
    \/ \E h \in Handlers : InsertFails(h)
    \/ \E h \in inflight : UpsertDone(h)
    \/ \E h \in Handlers : UpsertFails(h)
    \/ \E route \in Routes : Get(route)
    \/ \E q \in requests : GetDone(q)
    \/ \E q \in requests : GetFails(q)

SpecStamped == Init /\ [][NextStamped]_vars

(* A position report the handler stores and a frame that is no JSON. *)
LiveFrames == { PositionMsg(Meta(1, "A"), P1), Unparseable }

(* the two programs whose 'close' handler is src/index.js:173-176 and     *)
(* src/unnamed/part_001:477-480                                            *)
InitLive == Init \/ InitPlain

(* Either of these programs with its feed failing and reconnecting, where  *)
(* a timer that is due fires: Node runs the callback of setTimeout once    *)
(* the delay is over, the process never exits after startup and no handler *)
(* blocks the event loop.  Nothing is assumed of the feed: a connection    *)
(* may stay as it is for ever.  Up to MaxFeed frames arrive and clients    *)
(* request the /api routes meanwhile.                                      *)
NextLive ==
    \/ ListenUnconfigured
    \/ ListenInit
    \/ InitConnected
    \/ ListenInitFails
    \/ Startup
    \/ LoadCreateTablesDone
    \/ LoadCreateTablesFails
    \/ ListenPlain
    \/ \E s \in 1..Len(sockets) : WsOpen(s)
    \/ \E s \in 1..Len(sockets) : WsError(s)
    \/ \E s \in 1..Len(sockets) : WsClose(s)
    \/ TimerFires
    \/ \E s \in 1..Len(sockets), data \in LiveFrames :
           received < MaxFeed /\ WsMessage(s, data)
    \/ \E h \in inflight : InsertDone(h)
    \/ \E h \in Handlers : InsertFails(h)
    \/ \E h \in inflight : UpsertDone(h)
    \/ \E h \in inflight : UpsertDoneAll(h)
    \/ \E h \in Handlers : UpsertFails(h)
    \/ \E route \in Routes : Get(route)
    \/ \E q \in requests : GetDone(q)
    \/ \E q \in requests : GetFails(q)

SpecLive == InitLive /\ [][NextLive]_vars /\ WF_vars(TimerFires)


----------------------------------------------------------------------------
(* Vocabulary of the properties. *)

IsPosition(data) == data # Unparseable /\ data.MessageType = "PositionReport"
IsStatic(data) == data # Unparseable /\ data.MessageType = "ShipStaticData"

(* the identity key a frame carries, Null when it carries none *)
KeyOf(data) == MetaMMSI(data)

(* a coordinate a position frame carries, Null when it carries none *)
Coord(data, f) ==
    IF TruthyO(data.PositionReport) THEN data.PositionReport[f] ELSE Null

(* a position frame with a non-null key and both coordinates non-null and *)
(* in range                                                               *)
CompletePosition(data) ==
    /\ IsPosition(data)
    /\ KeyOf(data) # Null
    /\ Coord(data, "Latitude") # Null /\ Coord(data, "Latitude") \in -90..90
    /\ Coord(data, "Longitude") # Null
    /\ Coord(data, "Longitude") \in -180..180

(* a position frame without key or without a coordinate, or a static      *)
(* frame without key                                                      *)
Incomplete(data) ==
    \/ /\ IsPosition(data)
       /\ \/ KeyOf(data) = Null
          \/ Coord(data, "Latitude") = Null
          \/ Coord(data, "Longitude") = Null
    \/ IsStatic(data) /\ KeyOf(data) = Null

VesselRows(key) == {r \in vessels : r.mmsi = String(key)}

HistoryRows(ids) ==
    {positions[i] : i \in {j \in 1..Len(positions) : positions[j].id \in ids}}

(* an absent optional number is stored as 0 *)
Default0(v) == IF v = Null THEN 0 ELSE v

----------------------------------------------------------------------------
(* C1: a position message with a non-null identity key and both           *)
(* coordinates non-null (any latitude in -90..90, any longitude in        *)
(* -180..180), none of whose store writes failed, has appended exactly    *)
(* one history row when its handler returns, and exactly one vessel row   *)
(* then exists for its key, holding the message's latitude, longitude,    *)
(* speed and heading.                                                     *)
C1_PositionStored ==
    (/\ last.n > 0
     /\ CompletePosition(last.data)
     /\ last.ins # "failed" /\ last.ups # "failed")
    => LET pos == last.data.PositionReport
       IN /\ Cardinality(last.appended) = 1
          /\ \E r \in HistoryRows(last.appended) :
                /\ r.mmsi = String(KeyOf(last.data))
                /\ r.latitude = pos.Latitude
                /\ r.longitude = pos.Longitude
          /\ Cardinality(VesselRows(KeyOf(last.data))) = 1
          /\ \A r \in VesselRows(KeyOf(last.data)) :
                /\ r.last_latitude = pos.Latitude
                /\ r.last_longitude = pos.Longitude
                /\ r.last_speed = Default0(pos.Sog)
                /\ r.last_heading = Default0(pos.TrueHeading)

(* The same statement for the messages whose coordinates are both         *)
(* non-zero: the part of C1 the handler does deliver.                     *)
C1_NonZeroPositionStored ==
    (CompletePosition(last.data) =>
        Coord(last.data, "Latitude") # 0 /\ Coord(last.data, "Longitude") # 0)
    => C1_PositionStored

(* C2: a position message without identity key or without a coordinate,   *)
(* and a static message without identity key, never has a store query     *)
(* pending, returns without having issued one or appended a row, and no   *)
(* exception leaves the handler.                                          *)
C2_IncompleteDropped ==
    /\ \A h \in Handlers : ~Incomplete(h.data)
    /\ (last.n > 0 /\ Incomplete(last.data)) =>
          last.ins = "none" /\ last.ups = "none" /\ last.appended = {}
    /\ ~escaped

(* a static message without key was dropped while the tables hold rows of *)
(* earlier messages                                                       *)
C2_Witness ==
    /\ last.n > 0
    /\ Incomplete(last.data) /\ IsStatic(last.data)
    /\ vessels # {} /\ positions # <<>>

(* a position message without latitude was dropped *)
C2_WitnessPosition ==
    /\ last.n > 0
    /\ Incomplete(last.data) /\ IsPosition(last.data)
    /\ KeyOf(last.data) # Null

(* C3: at most one message handler is between its start and its return. *)
C3_OneAtATime == Cardinality(Handlers) <= 1

(* C4: for two position messages of one identity key, the vessel upsert   *)
(* of the one received first is applied before that of the one received   *)
(* later: no handler returns with its upsert applied right after the      *)
(* handler of a later position message for the same key did.              *)
C4_PerKeyOrder ==
    [][(/\ last'.n # last.n
        /\ last.n > 0 /\ IsPosition(last.data) /\ last.ups = "ok"
        /\ IsPosition(last'.data) /\ last'.ups = "ok"
        /\ KeyOf(last'.data) = KeyOf(last.data)
        /\ last'.data.PositionReport # last.data.PositionReport)
       => last'.n > last.n]_vars

(* C5: the two writes of a position event are independent: after a failed *)
(* history INSERT the vessel upsert is still attempted, after a failed    *)
(* upsert the history row stays, and the failure is caught.               *)
C5_WritesIndependent ==
    /\ (last.n > 0 /\ last.ins = "failed") => last.ups # "none"
    /\ (last.n > 0 /\ last.ins = "ok" /\ last.ups = "failed") =>
          Cardinality(HistoryRows(last.appended)) = 1
    /\ ~escaped

(* The parts of C5 that do not ask for the upsert after a failed INSERT. *)
C5_FailureCaught ==
    /\ (last.n > 0 /\ last.ins = "ok" /\ last.ups = "failed") =>
          Cardinality(HistoryRows(last.appended)) = 1
    /\ (last.n > 0 /\ (last.ins = "failed" \/ last.ups = "failed")) =>
          last.error
    /\ ~escaped


(* the columns a static event carries, and those a position event carries *)
Descriptive(r) == <<r.name, r.callsign, r.imo, r.vessel_type, r.length, r.width>>
Positional(r) ==
    <<r.last_latitude, r.last_longitude, r.last_speed, r.last_heading,
      r.last_position_time>>

(* this step is the return of a handler whose vessel upsert was applied *)
Applied == last'.n # last.n /\ last'.ups = "ok"

(* the row of vessels' with the key of row r *)
After(r) == CHOOSE r2 \in vessels' : r2.mmsi = r.mmsi

(* C6: applying a position event to an existing vessel row leaves name,   *)
(* call sign, registry number, category, length and width as they were,   *)
(* and applying a static event to an existing vessel row leaves the last  *)
(* latitude, longitude, speed, heading and position time as they were.    *)
C6_FieldMergeIsolation ==
    [][Applied =>
         \A r \in VesselRows(KeyOf(last'.data)) :
            /\ \E r2 \in vessels' : r2.mmsi = r.mmsi
            /\ IsPosition(last'.data) => Descriptive(After(r)) = Descriptive(r)
            /\ IsStatic(last'.data) => Positional(After(r)) = Positional(r)]_vars

(* a position event was applied to a row that a static event had filled *)
C6_Witness ==
    /\ last.ups = "ok" /\ IsPosition(last.data)
    /\ \E r \in VesselRows(KeyOf(last.data)) :
          r.callsign = "CS" /\ r.last_latitude = 10 /\ r.updated_at > 1

(* a static event was applied to a row that a position event had created *)
C6_WitnessStatic ==
    /\ last.ups = "ok" /\ IsStatic(last.data)
    /\ \E r \in VesselRows(KeyOf(last.data)) :
          r.callsign = "CS" /\ r.last_latitude = 10 /\ r.updated_at > 2

(* C7: a static event applied to an existing vessel row leaves untouched  *)
(* every column whose field the event does not carry: the name, the call  *)
(* sign, the registry number, and the length and width when the event has *)
(* no dimension offsets.                                                  *)
C7_MergeOnlyCarried ==
    [][(Applied /\ IsStatic(last'.data)) =>
         LET ship == last'.data.ShipStaticData
         IN \A r \in VesselRows(KeyOf(last'.data)) :
               /\ ship.Name = NullS => After(r).name = r.name
               /\ ship.CallSign = NullS => After(r).callsign = r.callsign
               /\ ship.ImoNumber = Null => After(r).imo = r.imo
               /\ ship.Dimension = Absent =>
                     /\ After(r).length = r.length
                     /\ After(r).width = r.width]_vars

(* one row of vessels, but for the column updated_at *)
Timeless(r) == [r EXCEPT !.updated_at = Null]

(* C8: for every static event the handler stores and every vessel table,  *)
(* the table after applying the event twice in succession equals, in      *)
(* every column but updated_at, the table after applying it once, and     *)
(* holds exactly one row for the event's key.                             *)
C8_UpsertIdempotent ==
    \A data \in Frames :
        (FirstAwait(data) = "static") =>
            LET p == StaticUpsertParams(data)
                once == UpsertStatic(vessels, now, p)
                twice == UpsertStatic(once, now + 1, p)
            IN /\ {Timeless(r) : r \in twice} = {Timeless(r) : r \in once}
               /\ Cardinality(twice) = Cardinality(once)
               /\ Cardinality({r \in twice : r.mmsi = p.mmsi}) = 1

(* a static event was applied to the row an earlier static event for the  *)
(* same key had created, and the row holds what the event carries         *)
C8_Witness ==
    /\ last.n = 2 /\ last.ups = "ok" /\ IsStatic(last.data)
    /\ positions = <<>>
    /\ \E r \in vessels :
          /\ vessels = {r}
          /\ r.updated_at = 2
          /\ r.name = StaticUpsertParams(last.data).name
          /\ r.callsign = StaticUpsertParams(last.data).callsign


(* sockets in a given readyState *)
InState(states) == {s \in 1..Len(sockets) : sockets[s].state \in states}

(* reconnection attempts scheduled so far: the timers still pending and   *)
(* those that fired, each of which created one socket after the first     *)
Scheduled == timers + (Len(sockets) - 1)

(* C9: every transport failure schedules exactly one reconnection         *)
(* attempt: once its 'close' was delivered, as many attempts have been    *)
(* scheduled as sockets have closed, and a socket whose 'error' was       *)
(* delivered is the only one not yet closed; so the sockets connecting or *)
(* open and the pending reconnect timers are together at most one.        *)
C9_OneReconnectPerFailure ==
    phase = "running" =>
        /\ Scheduled = Cardinality(InState({"CLOSED"}))
        /\ Cardinality(InState({"CONNECTING", "OPEN", "CLOSING"})) + timers = 1
        /\ Cardinality(InState({"CONNECTING", "OPEN"})) + timers <= 1

(* the first socket closed, its reconnection opened a second socket, and  *)
(* that one failed with an 'error' whose 'close' is still to come         *)
C9_Witness ==
    /\ Len(sockets) = 2
    /\ sockets[1].state = "CLOSED"
    /\ sockets[2].state = "CLOSING"
    /\ timers = 0

(* C10: a closed feed connection is followed by a new connection attempt  *)
(* (the reconnect timer is pending until connectAIS creates a socket in   *)
(* CONNECTING); every socket that opened has been sent the subscription   *)
(* exactly once, no other socket has been sent any, and every message     *)
(* handled arrived on a socket whose subscription had been sent.          *)
C10_SubscribeBeforeMessages ==
    /\ [](/\ \A s \in 1..Len(sockets) :
               sockets[s].subs =
                   IF sockets[s].state = "CONNECTING" THEN 0
                   ELSE IF sockets[s].state = "OPEN" THEN 1
                   ELSE sockets[s].subs
          /\ \A s \in 1..Len(sockets) : sockets[s].subs <= 1
          /\ \A h \in Handlers : h.subs = 1
          /\ last.n > 0 => last.subs = 1
          /\ (sockets # <<>> /\ sockets[Len(sockets)].state = "CLOSED")
                => timers = 1)
    /\ [][/\ timers' < timers =>
               /\ Len(sockets') = Len(sockets) + 1
               /\ sockets'[Len(sockets')].state = "CONNECTING"
          /\ received' > received =>
               \E s \in 1..Len(sockets) :
                  sockets[s].state = "OPEN" /\ sockets[s].subs = 1]_vars

(* the first socket failed before it opened, the reconnection opened a    *)
(* second one, and a message that arrived on it has been handled          *)
C10_Witness ==
    /\ Len(sockets) = 2
    /\ sockets[1].state = "CLOSED" /\ sockets[1].subs = 0
    /\ sockets[2].state = "OPEN" /\ sockets[2].subs = 1
    /\ last.n > 0 /\ last.ups = "ok"

----------------------------------------------------------------------------
(* Vocabulary of the retention properties. *)

(* ids of the history rows in a table *)
Ids(rows) == {rows[i].id : i \in 1..Len(rows)}

(* the history row with a given id *)
RowOf(rows, id) == rows[CHOOSE i \in 1..Len(rows) : rows[i].id = id]

(* this step is the success of the query invocation r awaited at pc, after *)
(* which r awaits the query at next                                        *)
Passed(r, pc, next) ==
    /\ r \in runs /\ r.pc = pc
    /\ r \notin runs'
    /\ \E r2 \in runs' \ runs : r2.id = r.id /\ r2.pc = next

(* this step is the normal return of invocation r from the query at pc *)
ReturnedFrom(r, pc) ==
    /\ r \in runs /\ r.pc = pc
    /\ ended'.id = r.id
    /\ ~ended'.error

(* C11: the age-based step deletes exactly the history rows whose          *)
(* ingestion timestamp (created_at) lies more than 48 hours before the     *)
(* time at which the step runs: each such row is gone afterwards, every    *)
(* other row is still there, unchanged and in place, whatever the message  *)
(* handlers are doing at that moment.                                      *)
C11_AgeDeleteExact ==
    [][\A r \in runs :
          Passed(r, "age", "size") =>
             /\ Ids(positions') =
                   {id \in Ids(positions) :
                       now - RowOf(positions, id).created_at <= 48}
             /\ \A id \in Ids(positions') :
                   RowOf(positions', id) = RowOf(positions, id)
             /\ Len(positions') = Cardinality(Ids(positions'))]_vars

(* the age-based step ran while a history INSERT was pending: the row      *)
(* written 72 hours before the start is gone, the rows written 48 hours    *)
(* and 1 hour before it are kept                                           *)
C11_Witness ==
    /\ \E r \in runs : r.pc = "size"
    /\ \E h \in inflight : h.pc = "insert"
    /\ now = 100
    /\ Ids(positions) = {2, 3}

(* the least k with 10 * k >= n *)
TenthUp(n) == CHOOSE k \in 0..n : 10 * k >= n /\ (k = 0 \/ 10 * (k - 1) < n)

(* C12: the size-based step counts the history rows (N), then deletes      *)
(* exactly ceil(0.1 * N) rows, none of them newer than a row it keeps;     *)
(* it is entered only when the measured size exceeds the ceiling, and an   *)
(* invocation that measured no more than the ceiling returns without       *)
(* deleting a row.                                                         *)
C12_SizeValve ==
    [][\A r \in runs :
          /\ Passed(r, "count", "valve") =>
                \E r2 \in runs' : r2.id = r.id /\ r2.count = Len(positions)
          /\ r.pc \in {"count", "valve"} => r.sizeGB > 70
          /\ ReturnedFrom(r, "valve") =>
                /\ Len(positions) - Len(positions') = TenthUp(r.count)
                /\ Ids(positions') \subseteq Ids(positions)
                /\ \A d \in Ids(positions) \ Ids(positions'),
                      k \in Ids(positions') :
                      RowOf(positions, d).created_at
                         <= RowOf(positions, k).created_at
          /\ ReturnedFrom(r, "size") =>
                ended'.sizeGB <= 70 /\ positions' = positions]_vars

(* The parts of C12 that hold however the invocations overlap: at most     *)
(* ceil(0.1 * N) rows are deleted, exactly as many when the table still    *)
(* holds that many, and never a row newer than one that is kept.           *)
C12_SizeValveAtMost ==
    [][\A r \in runs :
          /\ Passed(r, "count", "valve") =>
                \E r2 \in runs' : r2.id = r.id /\ r2.count = Len(positions)
          /\ r.pc \in {"count", "valve"} => r.sizeGB > 70
          /\ ReturnedFrom(r, "valve") =>
                /\ Len(positions) - Len(positions') <= TenthUp(r.count)
                /\ Len(positions) >= TenthUp(r.count) =>
                      Len(positions) - Len(positions') = TenthUp(r.count)
                /\ Ids(positions') \subseteq Ids(positions)
                /\ \A d \in Ids(positions) \ Ids(positions'),
                      k \in Ids(positions') :
                      RowOf(positions, d).created_at
                         <= RowOf(positions, k).created_at
          /\ ReturnedFrom(r, "size") =>
                ended'.sizeGB <= 70 /\ positions' = positions]_vars

(* this step is the return of a cleanupOldData invocation: one that was   *)
(* pending is the invocation that returned most recently.  An invocation   *)
(* that is gone because the process exited has not returned.               *)
RunEnds == \E r \in runs : ended'.id = r.id

(* this step is a call of cleanupOldData by who *)
RunStarts(who) == started' = Append(started, who)

(* C13: a failure of any query of cleanupOldData is caught: the invocation *)
(* returns, the process keeps running, the recurring timer stays armed     *)
(* with its due time, and no exception escapes; the process exits only     *)
(* where the bootstrap fails, never in the step in which an invocation     *)
(* returns; a timer that is due can fire whatever became of the            *)
(* invocations before it, and its firing starts a new invocation at the    *)
(* first step; an invocation leaves its first step only for the second,    *)
(* when the step succeeded, by returning in error, or with the process.    *)
C13_RetentionBestEffort ==
    /\ [](/\ phase # "exited" => interval
          /\ ~escaped
          /\ \A r \in runs : r.pc \in {"age", "size", "count", "valve"}
          /\ (phase # "exited" /\ now >= due /\ Len(started) < MaxRuns) =>
                ENABLED CleanupTimerFires)
    /\ [][/\ RunEnds =>
                /\ phase' = phase /\ phase # "exited"
                /\ Cardinality(runs') = Cardinality(runs) - 1
          /\ (RunEnds /\ ended'.error) =>
                /\ interval' /\ due' = due
                /\ positions' = positions /\ vessels' = vessels
          /\ (phase # "exited" /\ phase' = "exited") =>
                /\ phase \in {"boot", "connect", "create"}
                /\ ended' = ended /\ runs' = {}
          /\ RunStarts("timer") =>
                \E r \in runs' \ runs : r.pc = "age" /\ r.by = "timer"
          /\ \A r \in runs :
                (r.pc = "age" /\ r \notin runs') =>
                   \/ \E r2 \in runs' : r2.id = r.id /\ r2.pc = "size"
                   \/ ended'.id = r.id /\ ended'.error
                   \/ phase' = "exited"]_vars

(* the startup invocation failed in the DELETE of the second step, and the *)
(* timer has started the next invocation since                             *)
C13_Witness ==
    /\ ended.by = "startup" /\ ended.error /\ ended.pc = "valve"
    /\ phase = "running"
    /\ started = <<"startup", "timer">>
    /\ \E r \in runs : r.by = "timer" /\ r.pc = "size"

(* C14 as claimed: after a successful startup one cleanupOldData           *)
(* invocation has been started by the startup path, it is the first        *)
(* invocation of all, and the process never exits once it has started.     *)
C14_StartupRunFirst ==
    /\ phase = "running" => Cardinality({i \in 1..Len(started) :
                                           started[i] = "startup"}) = 1
    /\ phase = "running" => started[1] = "startup"
    /\ phase = "exited" => \A i \in 1..Len(started) : started[i] # "startup"

(* C14 as amended: the startup invocation is started by the step that      *)
(* completes startup, it is the first invocation of all whenever that      *)
(* step comes less than six hours after the module was loaded, and the     *)
(* process does not exit when it fails.                                    *)
C14_StartupRun ==
    /\ [](/\ phase = "running" =>
                Cardinality({i \in 1..Len(started) :
                               started[i] = "startup"}) = 1
          /\ phase = "exited" =>
                \A i \in 1..Len(started) : started[i] # "startup")
    /\ [][/\ (phase # "running" /\ phase' = "running") =>
                /\ RunStarts("startup")
                /\ Len(sockets') = 1
                /\ now < 100 + 6 => started = <<>>
          /\ (RunEnds /\ ended'.by = "startup") => phase' = "running"]_vars

(* the startup invocation failed, startup did not, and the timer has       *)
(* started an invocation of its own since                                  *)
C14_Witness ==
    /\ phase = "running"
    /\ started = <<"startup", "timer">>
    /\ ended.by = "startup" /\ ended.error /\ ended.pc = "age"
    /\ sockets # <<>> /\ sockets[1].state = "OPEN"

----------------------------------------------------------------------------
(* C15: a message whose handling raises, because its text is no JSON or    *)
(* because a store write fails, has its error caught in the handler: no    *)
(* exception escapes, the process keeps running, the feed sockets are as   *)
(* they were, and a message received after it is handled as any other:     *)
(* its handler awaits the first query its content calls for, or returns.   *)
C15_StreamSurvivesErrors ==
    /\ [](~escaped)
    /\ [][/\ (last'.n # last.n /\ last'.error) =>
                /\ phase' = "running"
                /\ sockets' = sockets /\ timers' = timers
          /\ (received' > received /\ last.error) =>
                \/ \E h \in (inflight' \ inflight) :
                      h.n = received' /\ h.pc = FirstAwait(h.data)
                \/ /\ last'.n = received'
                   /\ FirstAwait(last'.data) \in {"throw", "return"}]_vars

(* the first message's history INSERT failed; the second message, a        *)
(* position too, has its history row written and awaits its upsert on the  *)
(* same open socket                                                        *)
C15_Witness ==
    /\ last.n = 1 /\ last.error /\ last.ins = "failed"
    /\ \E h \in inflight : h.n = 2 /\ h.pc = "upsert"
    /\ Len(positions) = 1
    /\ Len(sockets) = 1 /\ sockets[1].state = "OPEN"
    /\ phase = "running"

(* an unparseable message was caught and the process runs on *)
C15_WitnessUnparseable ==
    /\ last.n = 1 /\ last.error /\ last.data = Unparseable
    /\ \E h \in inflight : h.n = 2 /\ h.pc = "static"
    /\ phase = "running"

(* C16: when DATABASE_URL or AISSTREAM_API_KEY is unset the process leaves *)
(* startup only by exiting, and no step ever creates a socket, creates the *)
(* tables or changes a row.                                                *)
C16_MissingConfigFatal ==
    /\ []((~(env.DATABASE_URL /\ env.AISSTREAM_API_KEY)) =>
             phase \in {"boot", "exited"})
    /\ [][(~(env.DATABASE_URL /\ env.AISSTREAM_API_KEY)) =>
             /\ sockets' = <<>> /\ sockets = <<>>
             /\ tables' = tables
             /\ vessels' = vessels /\ positions' = positions
             /\ runs' = {}]_vars

(* the store is configured, the feed credential is not: the process exited *)
(* and the store holds what it held before                                 *)
C16_Witness ==
    /\ phase = "exited"
    /\ env.DATABASE_URL /\ ~env.AISSTREAM_API_KEY
    /\ sockets = <<>>
    /\ Len(positions) = 3

(* C17: connectWithRetry makes at most five connection attempts; the first *)
(* that succeeds ends it, and no attempt or delay follows; it waits the    *)
(* delay only after a failed attempt that is not the fifth; the fifth      *)
(* failure ends the process with no feed socket ever created.              *)
C17_BoundedRetry ==
    /\ [](/\ attempt \in 0..4
          /\ phase = "exited" => sockets = <<>>)
    /\ [][/\ phase \in {"create", "running", "exited"} =>
                phase' \notin {"connect", "delay"}
          /\ (phase = "connect" /\ phase' # "connect") =>
                \/ phase' = "create"
                \/ phase' = "delay" /\ attempt < 4 /\ attempt' = attempt
                \/ phase' = "exited" /\ attempt = 4 /\ sockets' = <<>>
          /\ (phase = "delay" /\ phase' # "delay") =>
                phase' = "connect" /\ attempt' = attempt + 1
          /\ phase' = "delay" => phase \in {"connect", "delay"}
          /\ attempt' # attempt =>
                \/ phase = "delay" /\ attempt' = attempt + 1
                \/ phase = "connect" /\ phase' = "create"]_vars

(* five attempts failed and the process exited without a feed socket *)
C17_Witness ==
    /\ phase = "exited"
    /\ env.DATABASE_URL /\ env.AISSTREAM_API_KEY
    /\ attempt = 4
    /\ sockets = <<>>

(* the third attempt succeeded and startup went on to the feed *)
C17_WitnessSuccess ==
    /\ phase = "running"
    /\ sockets # <<>>
    /\ now = 100

----------------------------------------------------------------------------
(* the identity keys in table vessels *)
Keys(rows) == {r.mmsi : r \in rows}

(* C18: table vessels never holds two rows with one identity key, and no   *)
(* step of the message handlers or of cleanupOldData removes a key from    *)
(* it: a key's row is created by the first event of either kind and only   *)
(* updated afterwards.                                                     *)
C18_VesselKeys ==
    /\ [](\A r1 \in vessels, r2 \in vessels : r1.mmsi = r2.mmsi => r1 = r2)
    /\ [][/\ Keys(vessels) \subseteq Keys(vessels')
          /\ Keys(vessels') # Keys(vessels) =>
                /\ last'.n # last.n /\ last'.ups = "ok"
                /\ Keys(vessels') = Keys(vessels) \cup {String(KeyOf(last'.data))}
          /\ vessels' # vessels => (last'.n # last.n /\ last'.ups = "ok")]_vars

(* cleanupOldData has deleted history rows of vessel 1, whose vessel row   *)
(* is still there, and a position event has created the row of vessel 2   *)
C18_Witness ==
    /\ Keys(vessels) = {"1", "2"}
    /\ last.n > 0 /\ last.ups = "ok" /\ IsPosition(last.data)
    /\ 1 \notin Ids(positions)
    /\ ended.by = "startup" /\ ~ended.error

(* a static event created the row of a vessel never seen before *)
C18_WitnessStatic ==
    /\ Keys(vessels) = {"1"}
    /\ positions = <<>>
    /\ \E r \in vessels : r.callsign = "CS" /\ r.last_latitude = Null

(* C19: a history row is never modified; a step adds a history row only    *)
(* as the history INSERT of a position message that has an identity key    *)
(* and both coordinates, one row with a new id; a static message adds      *)
(* none; and a step removes history rows only as a DELETE of               *)
(* cleanupOldData.                                                         *)
C19_HistoryAppendOnly ==
    [][/\ \A id \in Ids(positions) \cap Ids(positions') :
             RowOf(positions', id) = RowOf(positions, id)
       /\ Len(positions') = Cardinality(Ids(positions'))
       /\ Ids(positions') \ Ids(positions) # {} =>
             /\ Ids(positions') = Ids(positions) \cup {nextId}
             /\ nextId \notin Ids(positions)
             /\ \E h \in inflight \ inflight' :
                   /\ h.pc = "insert"
                   /\ CompletePosition(h.data)
                   /\ RowOf(positions', nextId).mmsi = String(KeyOf(h.data))
       /\ Ids(positions) \ Ids(positions') # {} =>
             \E r \in runs \ runs' : r.pc \in {"age", "valve"}
       /\ (last'.n # last.n /\ IsStatic(last'.data)) =>
             last'.appended = {} /\ positions' = positions]_vars

(* cleanupOldData deleted the oldest row, a position event of vessel 2    *)
(* added a row, which is there                                             *)
C19_Witness ==
    /\ Ids(positions) = {2, 3, 4}
    /\ last.n > 0 /\ last.ups = "ok" /\ IsPosition(last.data)
    /\ ended # NoRun /\ ~ended.error

(* a static event was stored and the history is as it was *)
C19_WitnessStatic ==
    /\ last.n > 0 /\ last.ups = "ok" /\ IsStatic(last.data)
    /\ Ids(positions) = {1, 2, 3}

----------------------------------------------------------------------------
(* the category of a static message is a yacht type: code 36, code 37,   *)
(* as a number or as text, or a text that contains 'yacht' in any case     *)
YachtCategory(data) ==
    LET t == data.ShipStaticData.Type
    IN \/ IsNum(t) /\ t.num \in {36, 37}
       \/ IsText(t) /\ t.text \in {"36", "37"}
       \/ IsText(t) /\ includes(toLowerCase(t.text), "yacht")

(* C20: in the yacht-only deployment the handler of a static message      *)
(* whose category is no yacht type never returns having written to table   *)
(* vessels.                                                                *)
C20_OnlyYachtsStored ==
    (/\ last.n > 0
     /\ IsStatic(last.data) /\ last.data.ShipStaticData # Absent
     /\ ~YachtCategory(last.data))
    => last.ups # "ok"

(* What the static branch does with the category instead: every static    *)
(* message with an identity key is stored, and the column vessel_type     *)
(* holds 'yacht' for the codes 36 and 37 and for a text that contains     *)
(* 'yacht', and the category's text, or 'unknown', for the others.         *)
C20_CategoryRelabelled ==
    [][(Applied /\ IsStatic(last'.data)) =>
          \A r \in vessels' :
             r.mmsi = String(KeyOf(last'.data)) =>
                r.vessel_type =
                   IF YachtCategory(last'.data) THEN "yacht"
                   ELSE IF ~TruthyJ(last'.data.ShipStaticData.Type) THEN "unknown"
                   ELSE StringJ(last'.data.ShipStaticData.Type)]_vars

----------------------------------------------------------------------------
(* the time the source asserts in a frame *)
ReportTime(data) == data.MetaData.time_utc

(* C21: the column timestamp of every history row holds the time the       *)
(* source asserted in the position message the row was written for,        *)
(* whenever the store executed the INSERT.                                 *)
C21_ReportTimeFromSource ==
    \A h \in Handlers \cup {last} :
       \A id \in h.appended \cap Ids(positions) :
          RowOf(positions, id).timestamp = ReportTime(h.data)

(* What the INSERT writes instead: timestamp is NOW(), the same value the  *)
(* column default gives created_at in that statement.                      *)
C21_ReportTimeIsIngestionTime ==
    \A i \in 1..Len(positions) :
       positions[i].timestamp = positions[i].created_at

----------------------------------------------------------------------------
(* the feed client's current socket, the one the global ws refers to *)
CurrentWs == sockets[Len(sockets)]

(* C22: once the k-th feed connection has closed, the k+1-st attempt is    *)
(* eventually started, whether or not the earlier attempts ever opened; a  *)
(* new attempt after the first starts only as a pending timer expires,     *)
(* never in the step of the close; and the running feed client is in no    *)
(* terminal state: whichever state its socket is in, the event that moves  *)
(* it on towards the next attempt can happen (error while connecting,      *)
(* close while open or closing, the timer once closed).  Attempts are      *)
(* counted up to MaxConnects.                                              *)
C22_ReconnectEventually ==
    /\ \A k \in 1..(MaxConnects - 1) :
          (Len(sockets) = k /\ sockets[k].state = "CLOSED")
             ~> (Len(sockets) = k + 1 /\ sockets[k + 1].state = "CONNECTING")
    /\ [][(sockets # <<>> /\ Len(sockets') > Len(sockets)) =>
             /\ timers > 0 /\ timers' = timers - 1
             /\ sockets[Len(sockets)].state = "CLOSED"]_vars
    /\ []((phase = "running" /\ Len(sockets) < MaxConnects) =>
             /\ CurrentWs.state = "CONNECTING" => ENABLED WsError(Len(sockets))
             /\ CurrentWs.state \in {"OPEN", "CLOSING"}
                   => ENABLED WsClose(Len(sockets))
             /\ CurrentWs.state = "CLOSED" => ENABLED TimerFires)

(* the first attempt failed before it opened and closed; the timer has     *)
(* fired and the second attempt is connecting                              *)
C22_Witness ==
    /\ Len(sockets) = 2
    /\ sockets[1].state = "CLOSED" /\ sockets[1].subs = 0
    /\ sockets[2].state = "CONNECTING"
    /\ timers = 0

====
